---- MODULE Spec2Model ----
\* Incremental geocoding reconciliation of src/geocode.py (process_geocoding):
\* one input CSV (df), one output CSV (output_file), repeated runs of the
\* script, and the upstream edits that happen between two runs.
\* Beside it: one call of safe_geocode with the cells of its row (QuerySpec),
\* the script of geocode.py over its two datasets (ScriptSpec), and the script
\* of src/isochrone.py with its pool of worker threads (IsoSpec).
EXTENDS Naturals, Sequences, FiniteSets, TLC

\* ------------------------------------------------------------------ values

\* Key-field tuples (City, State, Zip) of the input rows: the rows A, B, C of
\* the scenarios, in the order in which they first enter the input.
KeyNames == <<"A", "B", "C">>
Keys == {KeyNames[n] : n \in DOMAIN KeyNames}

\* The key-field tuple of a row all of whose key cells are empty (NaN, NaN, NaN).
NaN == "NaN"

\* A key-field tuple of filled cells: pd.read_csv(output_file, dtype={"Zip":
\* str}) and load_data(..., dtype={"Zip": str}) both read the Zip as text, so
\* the tuple read back from the output file is the tuple of the input.
IsText(key) == key \in Keys

\* None / NaN in a Latitude, Longitude or Error cell.
NULL == "null"

\* A coordinate typed into the output CSV by hand.
Manual == "M"

\* Longest input CSV considered.
MaxInput == 3

\* Runs of the script considered.
MaxRuns == 2

\* What the geolocator does with one query: a location, no location, an exception.
Outcomes == {"found", "not_found", "raised"}

\* The text of an Error cell ("Location not found", "Error geocoding address
\* '...': ...", "Unexpected error: ..."). The program tests an Error cell for
\* being empty and never reads its text, so one text stands for all.
Message == "message"

\* History marks: the geolocator call of a row failed (no location, or an
\* exception); the geolocator was not called for the row.
Failed == "failed"
NotCalled == "not_called"

\* The coordinates the geolocator returns for the query built from key k.
Latitude(k) == k
Longitude(k) == k

VARIABLES
    columns_missing,  \* the input CSV lacks the column of a key field
    df,               \* the input CSV: the key-field tuples of its rows, in order
    file_exists,      \* os.path.exists(output_file)
    file_header,      \* output_file holds its header line
    file_rows,        \* the rows of output_file (no index column)
    pc,               \* "idle" | "resolve" | "persist" | "done" | "aborted" |
                      \* "load_error" | "key_error" | "write_error"
    existing_df,      \* the loaded prior state, after the error amnesty
    rows_to_process,  \* the work set, with the index labels pandas gives it
    i,                \* the row DataFrame.apply is at
    final_df,         \* the merged frame, before it is saved
    prior,            \* history: output_file as it was when the run started
    outcomes,         \* history: the mark of each row attempted
    runs,             \* runs started
    second            \* history: this run follows a run with nothing changed between

\* One call of safe_geocode, with the cells of its row spelled out.
VARIABLES
    series,              \* the row (a pandas Series): its cell in each column
    columns_to_geocode,  \* the key fields of the dataset and their columns
    returned,            \* safe_geocode has returned
    asked,               \* history: the query geolocator.geocode was called with
    answer               \* what safe_geocode returned

\* One execution of the script of geocode.py: the cities, then the points of
\* interest.
VARIABLES
    chapters_file,    \* data/location/cities.csv: "missing" | "empty" | "no_column" | "ok"
    members_file,     \* data/location/poi.csv, likewise
    chapters_output,  \* geocoded_cities.csv existed when the script started
    members_output,   \* geocoded_poi.csv existed when the script started
    script,           \* the statement the script is at
    saved             \* the output files written by this execution

\* One execution of the script of isochrone.py.
VARIABLES
    cities,           \* the City cell of each row of geocoded_cities.csv
    coordinates,      \* the Latitude and Longitude cells of each row: filled or not
    iso_pc,           \* "start" | "coords" | "submit" | "collect" | "save" | "end" | "fatal"
    error_row,        \* the row that the ValueError of the coordinates loop names
    future_to_city,   \* the futures, in the order of their submission
    threads,          \* the worker threads of the executor
    collected,        \* the futures that as_completed has yielded
    isochrones_data,  \* the dict: (city_name, isochrone_result) items, in insertion order
    saving,           \* the item the loop over isochrones_data.items() is at
    files,            \* the files written under data/isochrones
    dumped,           \* what the files hold: <<file, city property, isochrones>> per
                      \* group of features written
    delayed           \* history: the tasks after whose call sleep(1.5) has run

geo_vars == <<columns_missing, df, file_exists, file_header, file_rows, pc, existing_df,
              rows_to_process, i, final_df, prior, outcomes, runs, second>>
query_vars == <<series, columns_to_geocode, returned, asked, answer>>

\* What a run of process_geocoding leaves alone.
script_vars == <<chapters_file, members_file, chapters_output, members_output,
                 script, saved>>
iso_vars == <<cities, coordinates, iso_pc, error_row, future_to_city, threads,
              collected, isochrones_data, saving, files, dumped, delayed>>
outside == <<query_vars, script_vars, iso_vars>>

vars == <<geo_vars, outside>>

\* ------------------------------------------------------------ data frames

\* A frame is a sequence of rows [idx, key, lat, lon, err]; idx is the pandas
\* index label, which is not the position once frames are filtered and
\* concatenated.
Row(idx, key, lat, lon, err) ==
    [idx |-> idx, key |-> key, lat |-> lat, lon |-> lon, err |-> err]

\* pd.read_csv: a RangeIndex 0..n-1 over the rows of the file.
read_csv(rows) ==
    [p \in 1..Len(rows) |->
        Row(p - 1, rows[p].key, rows[p].lat, rows[p].lon, rows[p].err)]

KeysOf(frame) == {frame[p].key : p \in DOMAIN frame}
LabelsOf(frame) == {frame[p].idx : p \in DOMAIN frame}

\* DataFrame.to_csv(index=False): the index labels are not written.
to_csv(frame) ==
    [p \in 1..Len(frame) |->
        [key |-> frame[p].key, lat |-> frame[p].lat,
         lon |-> frame[p].lon, err |-> frame[p].err]]

\* pd.read_csv that loads whatever the file holds.
read_csv_never_raises(header) == FALSE

\* pd.read_csv raises EmptyDataError for a file with no header line.
read_csv_raises(header) == ~header

\* load_data on the input CSV: a RangeIndex, and no Latitude, Longitude or
\* Error column (they read as missing wherever the frame is concatenated or
\* the columns are added).
load_data(input) ==
    [p \in 1..Len(input) |-> Row(p - 1, input[p], NULL, NULL, NULL)]

HasCoordinates(r) == r.lat # NULL /\ r.lon # NULL

\* df[columns_to_geocode.keys()], and drop_duplicates(subset=
\* columns_to_geocode.keys()): KeyError when the frame lacks one of the columns.
select_raises(missing) == missing

\* Clear the error for rows with valid latitude and longitude.
ErrorAmnesty(frame) ==
    [p \in DOMAIN frame |->
        IF HasCoordinates(frame[p]) THEN [frame[p] EXCEPT !.err = NULL]
        ELSE frame[p]]

\* The mask of the rows that need to be geocoded.
NeedsGeocoding(r) == r.err # NULL \/ r.lat = NULL \/ r.lon = NULL

\* new_rows without the filter: every row of the new data.
new_rows_unfiltered(input, existing) == load_data(input)

\* Rows of the new data whose key-field tuple is not in the existing file.
new_rows(input, existing) ==
    SelectSeq(load_data(input), LAMBDA r : r.key \notin KeysOf(existing))

\* drop_duplicates with keep="first": of the rows with one key-field tuple the
\* first stays, which after the concat of a first run is the input's row.
drop_duplicates_keep_first(frame) ==
    LET kept[n \in 0..Len(frame)] ==
            IF n = 0 THEN <<>>
            ELSE IF \E q \in 1..(n - 1) : frame[q].key = frame[n].key
                 THEN kept[n - 1]
                 ELSE Append(kept[n - 1], frame[n])
    IN  kept[Len(frame)]

\* drop_duplicates(subset=keys, keep="last"); the index labels are kept.
RECURSIVE drop_duplicates(_)
drop_duplicates(frame) ==
    IF frame = <<>> THEN <<>>
    ELSE LET h == Head(frame)
             t == Tail(frame)
         IN  IF \E q \in DOMAIN t : t[q].key = h.key
             THEN drop_duplicates(t)
             ELSE <<h>> \o drop_duplicates(t)

\* The frame to geocode: retry rows then new rows, or the whole input on a
\* first run.
df_to_geocode(input, exists, existing) ==
    IF exists
    THEN drop_duplicates(SelectSeq(existing, NeedsGeocoding) \o new_rows(input, existing))
    ELSE load_data(input)

\* The early return left out: no frame counts as empty.
never_empty(frame) == FALSE

\* rows_to_process.empty
empty(frame) == frame = <<>>

\* ---------------------------------------------------------------- geocoding

\* The columns of the key fields, and the cell of a row in one of them: no such
\* column in the row, an empty cell (pandas reads it as NaN, a float, also in
\* the Zip column read with dtype str), a text.
Columns == {"Address", "City", "State", "Zip"}
Absent == "absent"
CellText == [Address |-> "1 Main St", City |-> "Springfield", State |-> "IL",
             Zip |-> "62701"]
Cells(col) ==
    {Absent, NaN, CellText[col]}

\* columns_to_geocode of the two datasets of the script: the cities have no
\* "Address" key, the points of interest have one.
cities_columns == [City |-> "City", State |-> "State", Zip |-> "Zip"]
poi_columns == [Address |-> "Address", City |-> "City", State |-> "State",
                Zip |-> "Zip"]

\* columns_to_geocode.get(field, "")
columns_get(columns, field) ==
    IF field \in DOMAIN columns THEN columns[field] ELSE ""

\* row.get(column, ""): the default for a column the row does not have.
row_get(r, column) ==
    IF column \in DOMAIN r /\ r[column] # Absent THEN r[column] ELSE ""

\* bool(value), as filter(None, ...) tests it: of the cells only "" is false;
\* NaN is true.
truthy(value) == value # ""

\* isinstance(value, str)
is_str(value) == value # NaN

\* full_address = ", ".join(filter(None, [address, city, state, zip_code])):
\* the parts joined, or the TypeError of join for a part that is not a string.
full_address(address, city, state, zip_code) ==
    LET parts == SelectSeq(<<address, city, state, zip_code>>, truthy)
    IN  [raised |-> \E p \in DOMAIN parts : ~is_str(parts[p]), parts |-> parts]

\* The cells of the key-field tuple of a row of the frames (a cities row).
city_of(key) == IF key = NaN THEN NaN ELSE CellText["City"]
state_of(key) == IF key = NaN THEN NaN ELSE CellText["State"]
zip_of(key) ==
    IF key = NaN THEN NaN ELSE CellText["Zip"]

\* geocode whose except clause returns (None, None, None): the failure is
\* swallowed and no message is recorded.
geocode_silent(key, outcome) ==
    IF full_address("", city_of(key), state_of(key), zip_of(key)).raised
    THEN [raised |-> TRUE, val |-> <<NULL, NULL, Message>>]
    ELSE [raised |-> FALSE,
          val |-> CASE outcome = "found" -> <<Latitude(key), Longitude(key), NULL>>
                    [] outcome = "not_found" -> <<NULL, NULL, Message>>
                    [] OTHER -> <<NULL, NULL, NULL>>]

\* geocode(address, city, state, zip_code) on the key fields of one row. A
\* result is [raised, val]: raised when an exception leaves the function.
\* Building full_address is outside the try: a NaN key cell is a float, that
\* filter(None, ...) keeps and ", ".join rejects with a TypeError. Inside the try, an exception of the
\* geolocator becomes an error message.
geocode(key, outcome) ==
    IF full_address("", city_of(key), state_of(key), zip_of(key)).raised
    THEN [raised |-> TRUE, val |-> <<NULL, NULL, Message>>]
    ELSE [raised |-> FALSE,
          val |-> CASE outcome = "found" -> <<Latitude(key), Longitude(key), NULL>>
                    [] outcome = "not_found" -> <<NULL, NULL, Message>>
                    [] OTHER -> <<NULL, NULL, Message>>]

\* What can come of the geolocator call for a row: geocode calls it only once
\* full_address is built.
OutcomesFor(row) == IF geocode(row.key, "found").raised THEN {NotCalled} ELSE Outcomes

\* The history mark of an outcome.
mark(outcome) == IF outcome \in {"not_found", "raised"} THEN Failed ELSE outcome

\* safe_geocode(row): any exception of geocode becomes a row result.
safe_geocode(row, outcome) ==
    LET result == geocode(row.key, outcome)
    IN  IF result.raised
        THEN [raised |-> FALSE, val |-> <<NULL, NULL, Message>>]
        ELSE result

\* safe_geocode(row) with the cells of the row: what geolocator.geocode was
\* called with, if it was called, and the result for the row.
safe_geocode_cells(r, columns, outcome) ==
    LET address == row_get(r, columns_get(columns, "Address"))
        city == row_get(r, columns["City"])
        state == row_get(r, columns["State"])
        zip_code == row_get(r, columns["Zip"])
        query == full_address(address, city, state, zip_code)
    IN  IF query.raised
        THEN [called |-> FALSE, query |-> <<>>, val |-> <<NULL, NULL, Message>>]
        ELSE [called |-> TRUE, query |-> query.parts,
              val |-> CASE outcome = "found" -> <<"latitude", "longitude", NULL>>
                        [] outcome = "not_found" -> <<NULL, NULL, Message>>
                        [] OTHER -> <<NULL, NULL, Message>>]

\* rows_to_process[["Latitude", "Longitude", "Error"]] = geocoded_results, for
\* the row at position p.
set_result(rows, p, val) ==
    [rows EXCEPT ![p].lat = val[1], ![p].lon = val[2], ![p].err = val[3]]

\* -------------------------------------------------------------------- merge

\* First loop of the update: rows_to_process.at[index, "Error"] = None for a
\* processed row with coordinates whose label is in existing_df. With a label
\* that occurs twice in rows_to_process, .at falls back to .loc and clears the
\* error of every row carrying the label.
reclear_existing(rows, existing) ==
    [p \in DOMAIN rows |->
        IF \E q \in DOMAIN rows :
              /\ rows[q].idx = rows[p].idx
              /\ rows[q].idx \in LabelsOf(existing)
              /\ HasCoordinates(rows[q])
        THEN [rows[p] EXCEPT !.err = NULL]
        ELSE rows[p]]

\* An update that writes the whole processed row, key fields included.
loc_set_whole_row(existing, r) ==
    IF r.idx \in LabelsOf(existing)
    THEN [p \in DOMAIN existing |-> IF existing[p].idx = r.idx THEN r ELSE existing[p]]
    ELSE Append(existing, r)

\* existing_df.loc[index, ["Latitude", "Longitude", "Error"]] = row[...]: the
\* row of existing_df that carries the label is overwritten; a label that
\* existing_df does not have enlarges it by a row whose other cells are NaN.
loc_set(existing, r) ==
    IF r.idx \in LabelsOf(existing)
    THEN [p \in DOMAIN existing |->
            IF existing[p].idx = r.idx
            THEN [existing[p] EXCEPT !.lat = r.lat, !.lon = r.lon, !.err = r.err]
            ELSE existing[p]]
    ELSE Append(existing, Row(r.idx, NaN, r.lat, r.lon, r.err))

\* Second loop of the update, over the processed rows in order.
RECURSIVE update_existing(_, _)
update_existing(existing, rows) ==
    IF rows = <<>> THEN existing
    ELSE update_existing(loc_set(existing, Head(rows)), Tail(rows))

\* First run: clear the error of the processed rows with coordinates.
reclear_first_run(rows) ==
    [p \in DOMAIN rows |->
        IF HasCoordinates(rows[p]) THEN [rows[p] EXCEPT !.err = NULL]
        ELSE rows[p]]

\* final_df of process_geocoding.
merge(input, exists, existing, rows) ==
    IF exists
    THEN update_existing(existing, reclear_existing(rows, existing))
    ELSE drop_duplicates(load_data(input) \o reclear_first_run(rows))

\* ------------------------------------------------------------------ actions

\* No call of safe_geocode is looked at on its own.
NoQuery ==
    /\ series = [col \in Columns |-> Absent]
    /\ columns_to_geocode = cities_columns
    /\ returned = FALSE
    /\ asked = [called |-> FALSE, query |-> <<>>]
    /\ answer = <<>>

\* The script as a whole is not looked at.
NoScript ==
    /\ chapters_file = "ok"
    /\ members_file = "ok"
    /\ chapters_output = FALSE
    /\ members_output = FALSE
    /\ script = "start"
    /\ saved = {}

\* The script of isochrone.py is not looked at.
NoIso ==
    /\ cities = <<>>
    /\ coordinates = <<>>
    /\ iso_pc = "start"
    /\ error_row = 0
    /\ future_to_city = <<>>
    /\ threads = <<>>
    /\ collected = {}
    /\ isochrones_data = <<>>
    /\ saving = 1
    /\ files = {}
    /\ dumped = {}
    /\ delayed = {}

Init ==
    /\ NoQuery
    /\ NoScript
    /\ NoIso
    /\ columns_missing = FALSE
    /\ df = <<>>
    /\ file_exists = FALSE
    /\ file_header = FALSE
    /\ file_rows = <<>>
    /\ pc = "idle"
    /\ existing_df = <<>>
    /\ rows_to_process = <<>>
    /\ i = 1
    /\ final_df = <<>>
    /\ prior = [exists |-> FALSE, header |-> FALSE, rows |-> <<>>]
    /\ outcomes = <<>>
    /\ second = FALSE
    /\ runs = 0

\* The key-field tuples a new input row can have: one the input holds already
\* (a duplicate row), or one it does not hold. Nothing in the program depends
\* on what a tuple is, so a tuple new to the input takes the first free name.
InputKeys == {df[p] : p \in DOMAIN df}
NewRowKeys ==
    InputKeys \cup {KeyNames[n] : n \in {Cardinality(InputKeys) + 1} \cap DOMAIN KeyNames}

Between == pc \in {"idle", "done"} /\ runs < MaxRuns

\* The script is run again after a write that failed before its first line.
\* (After a write that failed later the file is a shorter dataset; the runs
\* that would follow it are not explored.)
AfterEmptyWrite == pc = "write_error" /\ ~file_header /\ runs < MaxRuns

\* What is known of the last run (its frames and its history) is kept until the
\* first change after it.
Forget ==
    /\ existing_df' = <<>>
    /\ rows_to_process' = <<>>
    /\ i' = 1
    /\ final_df' = <<>>
    /\ prior' = [exists |-> FALSE, header |-> FALSE, rows |-> <<>>]
    /\ outcomes' = <<>>
    /\ second' = FALSE
    /\ runs' = runs

\* Upstream adds a row at the end of the input CSV.
AppendRow ==
    /\ Between
    /\ Len(df) < MaxInput
    /\ \E k \in NewRowKeys : df' = Append(df, k)
    /\ pc' = "idle"
    /\ Forget
    /\ UNCHANGED <<columns_missing, file_exists, file_header, file_rows>>
    /\ UNCHANGED outside

\* Upstream adds a row at the top of the input CSV.
PrependRow ==
    /\ Between
    /\ Len(df) < MaxInput
    /\ \E k \in NewRowKeys : df' = <<k>> \o df
    /\ pc' = "idle"
    /\ Forget
    /\ UNCHANGED <<columns_missing, file_exists, file_header, file_rows>>
    /\ UNCHANGED outside

\* Somebody types the coordinates of an unresolved row into the output CSV and
\* leaves its Error cell as it is (the case the error amnesty is for).
ManualFix ==
    /\ Between
    /\ file_exists
    /\ \E p \in DOMAIN file_rows :
          /\ ~HasCoordinates(file_rows[p])
          /\ file_rows' = [file_rows EXCEPT ![p].lat = Manual, ![p].lon = Manual]
    /\ pc' = "idle"
    /\ Forget
    /\ UNCHANGED <<columns_missing, df, file_exists, file_header>>
    /\ UNCHANGED outside

\* Upstream drops or renames the column of a key field in the input CSV.
DropColumn ==
    /\ Between
    /\ ~columns_missing
    /\ columns_missing' = TRUE
    /\ pc' = "idle"
    /\ Forget
    /\ UNCHANGED <<df, file_exists, file_header, file_rows>>
    /\ UNCHANGED outside

\* process_geocoding up to the early return: load the prior state (the
\* exception of pd.read_csv leaves process_geocoding), clear the stale errors,
\* build the work set (with a prior state, df[columns_to_geocode.keys()] raises
\* KeyError for a column that df lacks), return when it is empty.
Load ==
    /\ Between \/ AfterEmptyWrite
    /\ IF file_exists /\ read_csv_raises(file_header)
       THEN /\ existing_df' = <<>>
            /\ rows_to_process' = <<>>
            /\ pc' = "load_error"
       ELSE IF file_exists /\ select_raises(columns_missing)
       THEN /\ existing_df' = ErrorAmnesty(read_csv(file_rows))
            /\ rows_to_process' = <<>>
            /\ pc' = "key_error"
       ELSE LET existing == IF file_exists THEN ErrorAmnesty(read_csv(file_rows)) ELSE <<>>
                rows == SelectSeq(df_to_geocode(df, file_exists, existing), NeedsGeocoding)
            IN  /\ existing_df' = existing
                /\ rows_to_process' = rows
                /\ pc' = IF empty(rows) THEN "done" ELSE "resolve"
    /\ i' = 1
    /\ final_df' = <<>>
    /\ prior' = [exists |-> file_exists, header |-> file_header, rows |-> file_rows]
    /\ outcomes' = <<>>
    /\ second' = (pc = "done")
    /\ runs' = runs + 1
    /\ UNCHANGED <<columns_missing, df, file_exists, file_header, file_rows>>
    /\ UNCHANGED outside

\* rows_to_process.apply(safe_geocode, axis=1), one row.
SafeGeocode ==
    /\ pc = "resolve"
    /\ i <= Len(rows_to_process)
    /\ \E outcome \in OutcomesFor(rows_to_process[i]) :
          LET result == safe_geocode(rows_to_process[i], outcome)
          IN  /\ outcomes' = Append(outcomes, mark(outcome))
              /\ IF result.raised
                 THEN /\ pc' = "aborted"
                      /\ UNCHANGED <<rows_to_process, i>>
                 ELSE /\ rows_to_process' = set_result(rows_to_process, i, result.val)
                      /\ i' = i + 1
                      /\ pc' = "resolve"
    /\ UNCHANGED <<columns_missing, df, file_exists, file_header, file_rows,
                   existing_df, final_df, prior, runs, second>>
    /\ UNCHANGED outside

\* After the last row: the results are merged into final_df. On a first run
\* drop_duplicates(subset=columns_to_geocode.keys()) raises KeyError for a
\* column that the frame lacks.
Merge ==
    /\ pc = "resolve"
    /\ i > Len(rows_to_process)
    /\ IF ~file_exists /\ select_raises(columns_missing)
       THEN /\ final_df' = <<>>
            /\ pc' = "key_error"
       ELSE /\ final_df' = merge(df, file_exists, existing_df, rows_to_process)
            /\ pc' = "persist"
    /\ UNCHANGED <<columns_missing, df, file_exists, file_header, file_rows,
                   existing_df, rows_to_process, i, prior, outcomes, runs, second>>
    /\ UNCHANGED outside

\* final_df.to_csv(output_file, index=False) runs to its end; the process ends.
Persist ==
    /\ pc = "persist"
    /\ file_exists' = TRUE
    /\ file_header' = TRUE
    /\ file_rows' = to_csv(final_df)
    /\ pc' = "done"
    /\ UNCHANGED <<columns_missing, df, existing_df, rows_to_process, i, final_df,
                   prior, outcomes, runs, second>>
    /\ UNCHANGED outside

\* What to_csv has written when it fails after `lines` lines: it opens
\* output_file itself for writing, which creates the file or cuts it to
\* nothing, and writes the header line, then the rows in order.
written(frame, lines) ==
    [header |-> lines >= 1, rows |-> SubSeq(to_csv(frame), 1, lines - 1)]

\* final_df.to_csv fails before its last line (disk full, I/O error, the
\* process is killed): the exception leaves process_geocoding and the process
\* ends; output_file stays as far as it was written.
PersistFails ==
    /\ pc = "persist"
    /\ \E lines \in 0..Len(final_df) :
          /\ file_header' = written(final_df, lines).header
          /\ file_rows' = written(final_df, lines).rows
    /\ file_exists' = TRUE
    /\ pc' = "write_error"
    /\ Forget
    /\ UNCHANGED <<columns_missing, df>>
    /\ UNCHANGED outside

Next ==
    \/ DropColumn
    \/ AppendRow
    \/ PrependRow
    \/ ManualFix
    \/ Load
    \/ SafeGeocode
    \/ Merge
    \/ Persist
    \/ PersistFails

Spec == Init /\ [][Next]_vars

\* --------------------------------------------- one call of safe_geocode

\* No run of process_geocoding is in progress and none has been.
NoRun ==
    /\ columns_missing = FALSE
    /\ df = <<>>
    /\ file_exists = FALSE
    /\ file_header = FALSE
    /\ file_rows = <<>>
    /\ pc = "idle"
    /\ existing_df = <<>>
    /\ rows_to_process = <<>>
    /\ i = 1
    /\ final_df = <<>>
    /\ prior = [exists |-> FALSE, header |-> FALSE, rows |-> <<>>]
    /\ outcomes = <<>>
    /\ second = FALSE
    /\ runs = 0

\* Any row of either dataset: each column absent, empty or filled.
QueryInit ==
    /\ NoRun
    /\ NoScript
    /\ NoIso
    /\ series \in {r \in [Columns -> UNION {Cells(col) : col \in Columns}] :
                  \A col \in Columns : r[col] \in Cells(col)}
    /\ columns_to_geocode \in {cities_columns, poi_columns}
    /\ returned = FALSE
    /\ asked = [called |-> FALSE, query |-> <<>>]
    /\ answer = <<>>

\* rows_to_process.apply(safe_geocode, axis=1) reaches the row.
ApplySafeGeocode ==
    /\ ~returned
    /\ \E outcome \in Outcomes :
          LET result == safe_geocode_cells(series, columns_to_geocode, outcome)
          IN  /\ asked' = [called |-> result.called, query |-> result.query]
              /\ answer' = result.val
    /\ returned' = TRUE
    /\ UNCHANGED <<series, columns_to_geocode, geo_vars, script_vars, iso_vars>>

QueryNext == ApplySafeGeocode

QuerySpec == QueryInit /\ [][QueryNext]_vars

\* ------------------------------------------------- the script of geocode.py

\* What an input CSV can be: no such file, a header and no row, rows but not
\* the column of every key field, rows with every column.
Inputs == {"missing", "empty", "no_column", "ok"}

\* load_data raises FileNotFoundError for a file that does not exist.
load_data_raises(input) == input = "missing"

\* How process_geocoding can end for an input, with or without a prior output
\* file (a loadable one): with an exception or not, after to_csv or not.
\*  - no row: the work set is empty without a prior file (early return); with
\*    one it holds the prior rows still to retry, if any;
\*  - a key column missing: KeyError, from the selection of the new rows with a
\*    prior file, from drop_duplicates (after the resolver calls) without;
\*  - else: the file is written, unless there is a prior file and nothing to do.
process_geocoding(input, output_exists) ==
    CASE input = "empty" ->
            IF output_exists
            THEN {[fatal |-> FALSE, saves |-> FALSE], [fatal |-> FALSE, saves |-> TRUE]}
            ELSE {[fatal |-> FALSE, saves |-> FALSE]}
      [] input = "no_column" -> {[fatal |-> TRUE, saves |-> FALSE]}
      [] OTHER ->
            IF output_exists
            THEN {[fatal |-> FALSE, saves |-> FALSE], [fatal |-> FALSE, saves |-> TRUE]}
            ELSE {[fatal |-> FALSE, saves |-> TRUE]}

ScriptInit ==
    /\ NoRun
    /\ NoQuery
    /\ NoIso
    /\ chapters_file \in Inputs
    /\ members_file \in Inputs
    /\ chapters_output \in BOOLEAN
    /\ members_output \in BOOLEAN
    /\ script = "start"
    /\ saved = {}

\* chapters_df = load_data(chapters_file, dtype={"Zip": str})
LoadChapters ==
    /\ script = "start"
    /\ script' = IF load_data_raises(chapters_file) THEN "fatal" ELSE "chapters_loaded"
    /\ UNCHANGED <<chapters_file, members_file, chapters_output, members_output, saved>>
    /\ UNCHANGED <<geo_vars, query_vars, iso_vars>>

\* process_geocoding(chapters_df, chapters_output, ...)
ProcessChapters ==
    /\ script = "chapters_loaded"
    /\ \E result \in process_geocoding(chapters_file, chapters_output) :
          /\ saved' = IF result.saves THEN saved \cup {"chapters_output"} ELSE saved
          /\ script' = IF result.fatal THEN "fatal" ELSE "chapters_done"
    /\ UNCHANGED <<chapters_file, members_file, chapters_output, members_output>>
    /\ UNCHANGED <<geo_vars, query_vars, iso_vars>>

\* members_df = load_data(members_file, dtype={"Zip": str})
LoadMembers ==
    /\ script = "chapters_done"
    /\ script' = IF load_data_raises(members_file) THEN "fatal" ELSE "members_loaded"
    /\ UNCHANGED <<chapters_file, members_file, chapters_output, members_output, saved>>
    /\ UNCHANGED <<geo_vars, query_vars, iso_vars>>

\* process_geocoding(members_df, members_output, ...)
ProcessMembers ==
    /\ script = "members_loaded"
    /\ \E result \in process_geocoding(members_file, members_output) :
          /\ saved' = IF result.saves THEN saved \cup {"members_output"} ELSE saved
          /\ script' = IF result.fatal THEN "fatal" ELSE "end"
    /\ UNCHANGED <<chapters_file, members_file, chapters_output, members_output>>
    /\ UNCHANGED <<geo_vars, query_vars, iso_vars>>

ScriptNext ==
    \/ LoadChapters
    \/ ProcessChapters
    \/ LoadMembers
    \/ ProcessMembers

ScriptSpec == ScriptInit /\ [][ScriptNext]_vars

\* ----------------------------------------------- the script of isochrone.py

\* Most rows of geocoded_cities.csv considered.
MaxCities == 3

\* ThreadPoolExecutor(max_workers=2)
max_workers == 2

\* City cells, as sequences of characters: "A B", "AB" and "C". Two rows can
\* have the same City (in two states).
CityNames == {<<"A", " ", "B">>, <<"A", "B">>, <<"C">>}

\* str.replace(old, new) for a one-character old.
RECURSIVE replace(_, _, _)
replace(text, old, new) ==
    IF text = <<>> THEN <<>>
    ELSE (IF Head(text) = old THEN new ELSE <<Head(text)>>)
         \o replace(Tail(text), old, new)

\* df.iloc[index]["City"].replace(" ", "").replace("/", "_")
sanitize(city) == replace(replace(city, " ", <<>>), "/", <<"_">>)

\* isochrone_result of a call that raised: None.
None == 0

\* The isochrones the service returns for the coordinates of row n (n >= 1).
Result(n) == n

\* An executor that starts a thread for every task submitted.
adjust_thread_count_unbounded(num_threads) == TRUE

\* ThreadPoolExecutor.submit starts a worker thread while there are fewer than
\* max_workers.
adjust_thread_count(num_threads) == num_threads < max_workers

\* generate_isochrone with the sleep at the end of the try block: no delay
\* after a call that raised.
sleeps_on_success(outcome) == outcome = "ok"

\* generate_isochrone: sleep(1.5) is in the finally clause, which runs after
\* the return value is computed and before the function returns, on the try
\* path and on the except path.
finally_sleeps(outcome) == TRUE

\* A loop left at the first result.
with_block_ends_early(yielded, futures) == yielded # {}

\* The end of the for loop over as_completed(future_to_city), and with it of
\* the with block: every future has been yielded (the shutdown of the executor
\* then finds every task finished).
with_block_ends(yielded, futures) == yielded = DOMAIN futures

\* isochrones_data.get(city_name): None without the key.
dict_get(data, city_name) ==
    IF \E p \in DOMAIN data : data[p][1] = city_name
    THEN data[CHOOSE p \in DOMAIN data : data[p][1] = city_name][2]
    ELSE None

\* isochrones_data[city_name] = isochrone_result: the value of an existing key
\* is replaced where the key is, a new key comes last.
dict_set(data, city_name, isochrone_result) ==
    IF \E p \in DOMAIN data : data[p][1] = city_name
    THEN [p \in DOMAIN data |->
            IF data[p][1] = city_name THEN <<city_name, isochrone_result>> ELSE data[p]]
    ELSE Append(data, <<city_name, isochrone_result>>)

\* data/isochrones/isochrones.geojson, the combined file.
Combined == <<"isochrones">>

\* The features of an individual file are dumped as the service returned
\* them, with no city property.
NoCity == <<>>

\* The thread that waits for a work item; prev is the task it ran before.
IdleThread(prev) == [phase |-> "idle", task |-> 0, result |-> None, prev |-> prev]

\* The futures not started yet; the work queue hands them out in the order of
\* their submission.
Pending == {t \in DOMAIN future_to_city : future_to_city[t].state = "pending"}

IsoInit ==
    /\ NoRun
    /\ NoQuery
    /\ NoScript
    /\ cities \in UNION {[1..n -> CityNames] : n \in 0..MaxCities}
    /\ coordinates \in [DOMAIN cities -> [latitude : BOOLEAN, longitude : BOOLEAN]]
    /\ iso_pc = "start"
    /\ error_row = 0
    /\ future_to_city = <<>>
    /\ threads = <<>>
    /\ collected = {}
    /\ isochrones_data = <<>>
    /\ saving = 1
    /\ files = {}
    /\ dumped = {}
    /\ delayed = {}

\* if len(df) < 1: raise ValueError
CheckRows ==
    /\ iso_pc = "start"
    /\ iso_pc' = IF Len(cities) < 1 THEN "fatal" ELSE "coords"
    /\ UNCHANGED <<cities, coordinates, error_row, future_to_city, threads, collected, isochrones_data,
                   saving, files, dumped, delayed>>
    /\ UNCHANGED <<geo_vars, query_vars, script_vars>>

\* A test of the latitude alone.
isna_latitude(cells) == ~cells.latitude

\* pd.isna(latitude) or pd.isna(longitude)
isna(cells) == ~cells.latitude \/ ~cells.longitude

\* The loop that fills coords_list: the first row with a missing coordinate
\* raises ValueError("The row {index + 1} ... has missing coordinates.").
ExtractCoords ==
    /\ iso_pc = "coords"
    /\ LET missing == {n \in DOMAIN coordinates : isna(coordinates[n])}
       IN  IF missing # {}
           THEN /\ iso_pc' = "fatal"
                /\ error_row' = CHOOSE n \in missing : \A m \in missing : n <= m
           ELSE /\ iso_pc' = "submit"
                /\ error_row' = error_row
    /\ UNCHANGED <<cities, coordinates, future_to_city, threads, collected,
                   isochrones_data, saving, files, dumped, delayed>>
    /\ UNCHANGED <<geo_vars, query_vars, script_vars>>

\* executor.submit(generate_isochrone, ...) for the next entry of
\* enumerate(coords_list); after the last one the dict comprehension is done and
\* the loop over as_completed starts.
Submit ==
    /\ iso_pc = "submit"
    /\ LET index == Len(future_to_city)
       IN  /\ future_to_city' =
                Append(future_to_city,
                       [index |-> index, city_name |-> sanitize(cities[index + 1]),
                        state |-> "pending", result |-> None])
           /\ threads' = IF adjust_thread_count(Len(threads))
                         THEN Append(threads, IdleThread(0))
                         ELSE threads
           /\ iso_pc' = IF index + 1 = Len(cities) THEN "collect" ELSE "submit"
    /\ UNCHANGED <<cities, coordinates, error_row, collected, isochrones_data, saving, files, dumped, delayed>>
    /\ UNCHANGED <<geo_vars, query_vars, script_vars>>

\* A waiting worker thread takes the next work item and calls isochrones(...).
Take(w) ==
    /\ threads[w].phase = "idle"
    /\ Pending # {}
    /\ LET t == CHOOSE t \in Pending : \A u \in Pending : t <= u
       IN  /\ threads' = [threads EXCEPT ![w] = [@ EXCEPT !.phase = "calling", !.task = t]]
           /\ future_to_city' = [future_to_city EXCEPT ![t].state = "running"]
    /\ UNCHANGED <<cities, coordinates, error_row, iso_pc, collected, isochrones_data, saving, files, dumped, delayed>>
    /\ UNCHANGED <<geo_vars, query_vars, script_vars>>

\* The future of task t is given its result and the thread of it goes back to
\* waiting.
finish(w, t, result) ==
    /\ future_to_city' = [future_to_city EXCEPT ![t].state = "finished",
                                                ![t].result = result]
    /\ threads' = [threads EXCEPT ![w] = IdleThread(t)]

\* The call of isochrones(...) returns or raises: the return value is
\* (city_name, isochrone_result) or (city_name, None), and the finally clause
\* starts to sleep.
Respond(w) ==
    /\ threads[w].phase = "calling"
    /\ \E outcome \in {"ok", "error"} :
          LET t == threads[w].task
              result == IF outcome = "ok" THEN Result(t) ELSE None
          IN  IF finally_sleeps(outcome)
              THEN /\ threads' = [threads EXCEPT ![w] = [@ EXCEPT !.phase = "sleeping",
                                                                   !.result = result]]
                   /\ UNCHANGED future_to_city
              ELSE finish(w, t, result)
    /\ UNCHANGED <<cities, coordinates, error_row, iso_pc, collected, isochrones_data, saving, files, dumped, delayed>>
    /\ UNCHANGED <<geo_vars, query_vars, script_vars>>

\* sleep(1.5) is over: generate_isochrone returns and the future is finished.
Return(w) ==
    /\ threads[w].phase = "sleeping"
    /\ finish(w, threads[w].task, threads[w].result)
    /\ delayed' = delayed \cup {threads[w].task}
    /\ UNCHANGED <<cities, coordinates, error_row, iso_pc, collected, isochrones_data, saving, files, dumped>>
    /\ UNCHANGED <<geo_vars, query_vars, script_vars>>

\* as_completed yields a finished future, any of those not yielded yet:
\* city_name, isochrone_result = future.result(), stored if isochrone_result.
Collect(t) ==
    /\ iso_pc = "collect"
    /\ t \notin collected
    /\ future_to_city[t].state = "finished"
    /\ collected' = collected \cup {t}
    /\ isochrones_data' =
          IF future_to_city[t].result # None
          THEN dict_set(isochrones_data, future_to_city[t].city_name,
                        future_to_city[t].result)
          ELSE isochrones_data
    /\ UNCHANGED <<cities, coordinates, error_row, iso_pc, future_to_city, threads, saving, files, dumped, delayed>>
    /\ UNCHANGED <<geo_vars, query_vars, script_vars>>

\* The for loop and the with block end.
LeaveWith ==
    /\ iso_pc = "collect"
    /\ with_block_ends(collected, future_to_city)
    /\ iso_pc' = "save"
    /\ UNCHANGED <<cities, coordinates, error_row, future_to_city, threads, collected, isochrones_data,
                   saving, files, dumped, delayed>>
    /\ UNCHANGED <<geo_vars, query_vars, script_vars>>

\* The file of the next item of isochrones_data is written, or the write fails
\* and the exception is printed.
SaveIndividual ==
    /\ iso_pc = "save"
    /\ saving <= Len(isochrones_data)
    /\ \E ok \in BOOLEAN :
          /\ files' = IF ok THEN files \cup {isochrones_data[saving][1]} ELSE files
          /\ dumped' = IF ok
                       THEN dumped \cup {<<isochrones_data[saving][1], NoCity,
                                           isochrones_data[saving][2]>>}
                       ELSE dumped
    /\ saving' = saving + 1
    /\ UNCHANGED <<cities, coordinates, error_row, iso_pc, future_to_city, threads, collected,
                   isochrones_data, delayed>>
    /\ UNCHANGED <<geo_vars, query_vars, script_vars>>

\* data/isochrones/isochrones.geojson is written, or the write fails and the
\* exception is printed.
SaveCombined ==
    /\ iso_pc = "save"
    /\ saving > Len(isochrones_data)
    /\ \E ok \in BOOLEAN :
          /\ files' = IF ok THEN files \cup {Combined} ELSE files
          /\ dumped' = IF ok
                       THEN dumped \cup {<<Combined, isochrones_data[p][1],
                                           isochrones_data[p][2]>> :
                                            p \in DOMAIN isochrones_data}
                       ELSE dumped
    /\ iso_pc' = "end"
    /\ UNCHANGED <<cities, coordinates, error_row, future_to_city, threads, collected, isochrones_data,
                   saving, delayed>>
    /\ UNCHANGED <<geo_vars, query_vars, script_vars>>

IsoNext ==
    \/ CheckRows
    \/ ExtractCoords
    \/ Submit
    \/ \E w \in DOMAIN threads : Take(w)
    \/ \E w \in DOMAIN threads : Respond(w)
    \/ \E w \in DOMAIN threads : Return(w)
    \/ \E t \in DOMAIN future_to_city : Collect(t)
    \/ LeaveWith
    \/ SaveIndividual
    \/ SaveCombined

IsoSpec == IsoInit /\ [][IsoNext]_vars

\* ------------------------------------------------------------------- claims

\* pc = "done": a run has ended (saved, or returned early) and neither the
\* input nor the output file has changed since; prior, outcomes and the frames
\* are those of that run.
RowsWithKey(rows, k) == {p \in DOMAIN rows : rows[p].key = k}
Unchanged ==
    file_exists = prior.exists /\ file_header = prior.header /\ file_rows = prior.rows

\* The resolver call for the work-set row at position q succeeded.
Succeeded(q) == outcomes[q] = "found" /\ IsText(rows_to_process[q].key)

\* C1: no data loss. After a run that has completed, every key-field tuple of
\* the fresh input is the key-field tuple of some row of the output file.
NoDataLoss ==
    pc = "done" =>
        \A k \in InputKeys : RowsWithKey(file_rows, k) # {}

\* C2: with a prior result, the outcome of each work-set row is written to the
\* prior-state row with the same key-field tuple and to no other prior-state
\* row: a prior row that no work-set row matches by key is left as it was,
\* and one that is matched holds the outcome of a row that matches it.
WrittenByKey ==
    (pc = "persist" /\ file_exists) =>
        \A p \in DOMAIN existing_df :
            LET matches == RowsWithKey(rows_to_process, existing_df[p].key)
            IN  IF matches = {}
                THEN final_df[p] = existing_df[p]
                ELSE \E q \in matches :
                        /\ final_df[p].lat = rows_to_process[q].lat
                        /\ final_df[p].lon = rows_to_process[q].lon
                        /\ final_df[p].err = rows_to_process[q].err

\* C3: with a prior result, every prior-state row that had both coordinates
\* has the same latitude and longitude in the output of the run.
ResolvedKept ==
    (pc = "done" /\ prior.exists) =>
        \A p \in DOMAIN prior.rows :
            HasCoordinates(prior.rows[p]) =>
                /\ p \in DOMAIN file_rows
                /\ file_rows[p].lat = prior.rows[p].lat
                /\ file_rows[p].lon = prior.rows[p].lon

\* C4: no duplication. No key-field tuple is the key-field tuple of two rows
\* of the output file, after any sequence of runs.
NoDuplication ==
    \A p, q \in DOMAIN file_rows :
        p # q => file_rows[p].key # file_rows[q].key

\* C5: error clears on success. A prior-state row with an error and no
\* coordinates whose resolver call succeeds in this run has the returned
\* coordinates and no error in the frame that is saved.
ErrorClearsOnSuccess ==
    (pc = "persist" /\ file_exists) =>
        \A q \in DOMAIN rows_to_process :
            LET w == rows_to_process[q]
                p == w.idx + 1
            IN  ( /\ p \in DOMAIN prior.rows
                  /\ prior.rows[p].key = w.key
                  /\ prior.rows[p].err # NULL
                  /\ prior.rows[p].lat = NULL
                  /\ prior.rows[p].lon = NULL
                  /\ Succeeded(q) )
                => /\ final_df[p].key = w.key
                   /\ final_df[p].lat = Latitude(w.key)
                   /\ final_df[p].lon = Longitude(w.key)
                   /\ final_df[p].err = NULL

FirstRunSettled ==
    /\ \A k \in InputKeys : RowsWithKey(prior.rows, k) # {}
    /\ \A p \in DOMAIN prior.rows : HasCoordinates(prior.rows[p])

Converged ==
    (pc = "done" /\ outcomes # <<>> /\ \A q \in DOMAIN outcomes : Succeeded(q)) =>
        \A k \in InputKeys :
            /\ Cardinality(RowsWithKey(file_rows, k)) = 1
            /\ \A p \in RowsWithKey(file_rows, k) :
                  HasCoordinates(file_rows[p]) /\ file_rows[p].err = NULL

\* C8: error amnesty. After a run with a prior result, every row of that prior
\* result that had both coordinates has no error in the output file.
AmnestyPersisted ==
    (pc = "done" /\ prior.exists) =>
        \A p \in DOMAIN prior.rows :
            HasCoordinates(prior.rows[p]) =>
                (p \in DOMAIN file_rows /\ file_rows[p].err = NULL)

\* C9: short-circuit. A run whose work set is empty calls the resolver for no
\* row and leaves the output file (present or absent) as it found it.
ShortCircuit ==
    (pc = "done" /\ rows_to_process = <<>>) => (outcomes = <<>> /\ Unchanged)

\* C9, witness: an early return over a prior result that holds a stale error.
ShortCircuitWitness ==
    /\ pc = "done"
    /\ rows_to_process = <<>>
    /\ prior.exists
    /\ \E p \in DOMAIN file_rows :
          HasCoordinates(file_rows[p]) /\ file_rows[p].err # NULL

\* The work-set row at position q holds what its resolver call gave: both
\* coordinates and no error, or no coordinate and the reason.
Recorded(q) ==
    LET w == rows_to_process[q]
    IN  IF Succeeded(q)
        THEN w.lat = Latitude(w.key) /\ w.lon = Longitude(w.key) /\ w.err = NULL
        ELSE w.lat = NULL /\ w.lon = NULL /\ w.err # NULL

AtomicPersist ==
    [][pc = "persist" =>
          \/ UNCHANGED <<file_exists, file_header, file_rows>>
          \/ file_exists' /\ file_header' /\ file_rows' = to_csv(final_df)]_vars

\* A first run (no output file when it started) that has saved its result.
FirstRun == pc = "done" /\ ~prior.exists /\ ~empty(rows_to_process)

\* The last work-set row with the key-field tuple k, as to_csv saves it.
LastResolved(k) ==
    LET q == CHOOSE q \in RowsWithKey(rows_to_process, k) :
                 \A r \in RowsWithKey(rows_to_process, k) : r <= q
    IN  to_csv(<<rows_to_process[q]>>)[1]

\* C12: first run. When no output file existed, the saved file holds exactly
\* one row for each distinct key-field tuple of the fresh input, and for every
\* tuple passed to the resolver that row is the resolved work-set row (the
\* coordinates on a success, the error and no coordinates on a failure), not
\* the unresolved row of the input.
FirstRunResult ==
    FirstRun =>
        /\ file_exists /\ file_header
        /\ Len(file_rows) = Cardinality(InputKeys)
        /\ \A k \in InputKeys : Cardinality(RowsWithKey(file_rows, k)) = 1
        /\ \A q \in DOMAIN rows_to_process :
              /\ rows_to_process[q].key \in InputKeys
              /\ \E p \in DOMAIN file_rows :
                    /\ file_rows[p] = LastResolved(rows_to_process[q].key)
                    /\ \/ HasCoordinates(file_rows[p]) /\ file_rows[p].err = NULL
                       \/ ~HasCoordinates(file_rows[p]) /\ file_rows[p].err # NULL

\* Three input rows, two successes and one failure: three rows saved, two with
\* coordinates, one with its error and no coordinates.
FirstRunWitness ==
    /\ FirstRun
    /\ df = <<"A", "B", "C">>
    /\ outcomes = <<"found", Failed, "found">>
    /\ Len(file_rows) = 3
    /\ Cardinality({p \in DOMAIN file_rows : HasCoordinates(file_rows[p])}) = 2
    /\ \E p \in DOMAIN file_rows :
          file_rows[p] = [key |-> "B", lat |-> NULL, lon |-> NULL,
                          err |-> Message]

\* The value that safe_geocode passes to geocode for a key field.
Passed(field) == row_get(series, columns_get(columns_to_geocode, field))

\* C13: partial-field resolution. For a row whose street address is empty or
\* absent and whose city, state and zip are filled, the resolver is called,
\* with the query made of the city, the state and the zip and nothing else.
PartialField ==
    ( /\ returned
      /\ Passed("Address") \in {"", NaN}
      /\ Passed("City") = CellText["City"]
      /\ Passed("State") = CellText["State"]
      /\ Passed("Zip") = CellText["Zip"] )
    => /\ asked.called
       /\ asked.query = <<CellText["City"], CellText["State"], CellText["Zip"]>>

\* The run in progress, or the last run, started on an output file that
\* cannot be loaded: a file cut off before the end of its first line.
UnloadablePrior == prior.exists /\ ~prior.header

MissingColumnFatal ==
    (columns_missing /\ df # <<>> /\ pc # "idle") =>
        /\ outcomes = <<>>
        /\ Unchanged
        /\ pc \notin {"persist", "done"}

\* An input that fails a precondition: no file, no row, a key column missing.
PreconditionFails(input) == input \in {"missing", "empty", "no_column"}

\* C15: a failed precondition of an input (missing file, empty dataset, missing
\* required column) is fatal and aborts the run before any output file is
\* written: an execution of the geocoding script over such an input ends with
\* the fatal error, and no execution that ends with a fatal error has written
\* an output file.
PreconditionFatal ==
    /\ script = "fatal" => saved = {}
    /\ (script = "end") =>
           ~PreconditionFails(chapters_file) /\ ~PreconditionFails(members_file)

\* The worker threads whose call of isochrones(...) is in flight.
InFlight == {w \in DOMAIN threads : threads[w].phase = "calling"}

\* The futures submitted for row n of the dataset (index n - 1).
TasksOf(n) == {t \in DOMAIN future_to_city : future_to_city[t].index = n - 1}

\* C17: bounded pool. At every moment at most max_workers (2) isochrone calls
\* are in flight, for any number of cities, and one task is dispatched per city
\* row: never more than one for a row, and exactly one for every row once the
\* dispatch is over.
BoundedPool ==
    /\ Cardinality(InFlight) <= max_workers
    /\ \A n \in DOMAIN cities : Cardinality(TasksOf(n)) <= 1
    /\ Len(future_to_city) <= Len(cities)
    /\ iso_pc \in {"collect", "save", "end"} =>
          \A n \in DOMAIN cities : Cardinality(TasksOf(n)) = 1

\* Three cities dispatched: two calls in flight and the third task waiting.
BoundedPoolWitness ==
    /\ Len(cities) = 3
    /\ iso_pc = "collect"
    /\ Cardinality(InFlight) = max_workers
    /\ Pending = {3}

\* C18: barrier. No isochrone output file, individual or combined, is written
\* before every dispatched task has finished, with a result or with a failure
\* (and every row has been dispatched).
Barrier ==
    (files # {} \/ saving > 1 \/ iso_pc = "end") =>
        /\ Len(future_to_city) = Len(cities)
        /\ \A t \in DOMAIN future_to_city : future_to_city[t].state = "finished"

\* Three cities, one of whose calls failed; the individual files of the other
\* two and the combined file are written.
BarrierWitness ==
    /\ Len(cities) = 3
    /\ Cardinality({t \in DOMAIN future_to_city :
                        future_to_city[t].result = None}) = 1
    /\ Cardinality(files) = 3
    /\ <<"isochrones">> \in files

\* C19: completion-order independence. Each city's result is stored under that
\* city's identity, whatever the order in which the tasks complete: once the
\* results are collected, the result of every row whose call succeeded is the
\* one found under the row's city name.
OwnIdentity ==
    iso_pc \in {"save", "end"} =>
        \A t \in DOMAIN future_to_city :
            future_to_city[t].result # None =>
                dict_get(isochrones_data, sanitize(cities[t])) = Result(t)

\* C20: pacing. After each isochrone call, successful or failed, the worker
\* that made it performs the delay before it hands back the result (the future
\* is finished) and before it starts another call.
Pacing ==
    /\ \A t \in DOMAIN future_to_city :
          future_to_city[t].state = "finished" => t \in delayed
    /\ \A w \in DOMAIN threads :
          threads[w].prev # 0 => threads[w].prev \in delayed

\* A worker is in its second call, after a first call that failed; the other
\* worker's call succeeded and its future is finished.
PacingWitness ==
    \E w \in DOMAIN threads :
        /\ threads[w].phase = "calling"
        /\ threads[w].prev # 0
        /\ future_to_city[threads[w].prev].result = None
        /\ \E t \in DOMAIN future_to_city :
              /\ t # threads[w].prev
              /\ future_to_city[t].state = "finished"
              /\ future_to_city[t].result # None

\* The stage is over and no write failed: every item of isochrones_data has
\* its file, and the combined file is there.
AllSaved ==
    /\ iso_pc = "end"
    /\ Cardinality(files) = Len(isochrones_data) + 1

\* C21: isochrone output layout. After the isochrone stage (with no write
\* failure), for every city: the individual file named by its sanitized name
\* holds its isochrones, and the combined file holds them with the property
\* city = its sanitized name, if and only if its call succeeded.
OutputLayout ==
    AllSaved =>
        \A t \in DOMAIN cities :
            future_to_city[t].result # None <=>
                /\ <<sanitize(cities[t]), NoCity, Result(t)>> \in dumped
                /\ <<Combined, sanitize(cities[t]), Result(t)>> \in dumped

\* The rows of the geocoded cities file with a missing latitude or longitude.
Unresolved ==
    {n \in DOMAIN coordinates :
        ~coordinates[n].latitude \/ ~coordinates[n].longitude}

InvokedForEveryRow == returned => asked.called

\* The work set holds one row at most for each key-field tuple.
OnePerKey ==
    \A k \in KeysOf(rows_to_process) :
        Cardinality(RowsWithKey(rows_to_process, k)) = 1

\* C23, as claimed: the work set of a run holds at most one row per key-field
\* tuple.
WorkSetOnePerKey == pc = "resolve" => OnePerKey

\* The candidate rows of a run with a prior result, in retry-set-then-
\* novelty-set order, as they are before the first row is resolved.
Candidates == SelectSeq(existing_df, NeedsGeocoding) \o new_rows(df, existing_df)

\* C23, amended: in a run with a prior result the work set holds at most one
\* row per key-field tuple, and of the candidate rows that share a tuple it
\* holds the last one in retry-set-then-novelty-set order.
WorkSetKeepsLast ==
    (pc = "resolve" /\ prior.exists) =>
        /\ OnePerKey
        /\ i = 1 =>
              /\ KeysOf(rows_to_process) = KeysOf(Candidates)
              /\ \A q \in DOMAIN rows_to_process :
                    \E c \in DOMAIN Candidates :
                        /\ Candidates[c] = rows_to_process[q]
                        /\ \A d \in DOMAIN Candidates :
                              Candidates[d].key = Candidates[c].key => d <= c

\* The output file holds A; the input is [A, B, B]; the work set holds the
\* second B (index label 2) and not the first.
WorkSetKeepsLastWitness ==
    /\ pc = "resolve"
    /\ i = 1
    /\ prior.exists
    /\ df = <<"A", "B", "B">>
    /\ Len(Candidates) = 2
    /\ rows_to_process = <<Row(2, "B", NULL, NULL, NULL)>>

\* The work set that a run started now would build.
NextWorkSet ==
    LET existing == IF file_exists THEN ErrorAmnesty(read_csv(file_rows)) ELSE <<>>
    IN  SelectSeq(df_to_geocode(df, file_exists, existing), NeedsGeocoding)

\* C24: unbounded retry. A row whose resolution failed in a run is selected
\* for resolution again by the next run (and so by every later run, for as
\* long as it stays unresolved): when the run is over, the key-field tuple of
\* every row whose resolver call failed (and for whose tuple no call of the
\* run succeeded) is in the work set of the next run.
RetriedNextRun ==
    (pc = "done" /\ outcomes # <<>>) =>
        \A q \in DOMAIN outcomes :
            ( /\ outcomes[q] = Failed
              /\ \A r \in RowsWithKey(rows_to_process, rows_to_process[q].key) :
                    outcomes[r] # "found" )
            => rows_to_process[q].key \in KeysOf(NextWorkSet)

\* The two shapes of a resolved row: both coordinates and no error, or no
\* coordinate and an error.
TwoShapes(r) ==
    \/ r.lat # NULL /\ r.lon # NULL /\ r.err = NULL
    \/ r.lat = NULL /\ r.lon = NULL /\ r.err # NULL

\* C25: after the resolve and re-clear steps every row that was passed to the
\* resolver has one of the two shapes, and this is what the merge writes: the
\* rows of final_df that carry the label of a processed row have one of the
\* two shapes.
ResolvedShapes ==
    pc = "persist" =>
        /\ \A q \in DOMAIN rows_to_process : TwoShapes(rows_to_process[q])
        /\ \A p \in DOMAIN final_df :
              final_df[p].idx \in LabelsOf(rows_to_process) => TwoShapes(final_df[p])

\* C26: in a run with a prior persisted result every prior-state row is still
\* in the output, in its position and with its key fields unchanged: the merged
\* frame, and the file once the run has saved it, hold the rows of the prior
\* state in their order, with their key-field tuples, before any other row.
PriorRowsKept ==
    /\ (pc = "persist" /\ prior.exists) =>
          /\ Len(final_df) >= Len(prior.rows)
          /\ \A p \in DOMAIN prior.rows : final_df[p].key = prior.rows[p].key
    /\ (pc = "done" /\ prior.exists) =>
          /\ Len(file_rows) >= Len(prior.rows)
          /\ \A p \in DOMAIN prior.rows : file_rows[p].key = prior.rows[p].key

\* The output file held A (resolved) then B (unresolved); the input is
\* [C, A, B]: the run has overwritten the cells of A's row with C's result,
\* retried B, and the file holds A and B where they were.
PriorRowsKeptWitness ==
    /\ pc = "done"
    /\ prior.exists
    /\ Len(prior.rows) = 2
    /\ HasCoordinates(prior.rows[1])
    /\ ~HasCoordinates(prior.rows[2])
    /\ df = <<"C", "A", "B">>
    /\ outcomes = <<"found", Failed>>
    /\ file_rows[1] # prior.rows[1]
    /\ file_rows[1].key = "A"
    /\ file_rows[2].key = "B"


====
